---- MODULE Spec2Model ----
(***************************************************************************)
(* Model of the ArXiv hybrid paper recommender: corpus preparation         *)
(* (src/src/modeling.py load_and_process_data), similarity index building  *)
(* (create_similarity_matrix), the hybrid ranker (calculate_date_boost,    *)
(* recommend_papers) and the Streamlit front end (src/app.py).             *)
(*                                                                         *)
(* Scores are exact rationals scaled by Unit: the float 1.0 is Unit, the   *)
(* float 0.05 is Unit \div BoostInv.  Dates are day numbers; day 0 is the  *)
(* date of the evaluation clock when the session starts.  Corpus positions *)
(* and index labels are 0-based as in the code; TLA+ sequences are 1-based,*)
(* so position p of a table is element p + 1 of its sequence.              *)
(***************************************************************************)
EXTENDS Integers, Sequences, FiniteSets, TLC

VARIABLES
    fileState,                  \* data/raw_papers.csv: "missing" | "unreadable" | "ok"
    raw,                        \* rows of the CSV snapshot
    vocabOk,                    \* some term of the texts survives min_df pruning
    loadState,                  \* "unloaded" | "prepared" | "loaded" | "reported" | "uncaught"
    df,                         \* processed_df
    cosine_sim,                 \* sim_matrix
    now,                        \* datetime.now().date()
    selected_title,             \* value of the st.selectbox widget
    recommendations_generated,  \* st.session_state.recommendations_generated
    call,                       \* the last recommend_papers call and what it produced
    published_dt,               \* argument of the calculate_date_boost calls under study
    boost_log                   \* the last two calculate_date_boost calls: <<days, boost>>

vars == <<fileState, raw, vocabOk, loadState, df, cosine_sim, now, selected_title,
          recommendations_generated, call, published_dt, boost_log>>

----------------------------------------------------------------------------
(* Bounds of the model *)

MaxRaw == 3        \* rows of a snapshot handed to the ranker directly
MaxAppRaw == 4     \* rows of a snapshot loaded by the application
MaxTopN == 3       \* largest top_n of a direct call
MaxTick == 1       \* midnights that pass during a session
MaxPast == 3       \* days past the decay window, for calculate_date_boost
MaxFuture == 2     \* days a publication may lie after the clock

(* Program constants *)

DecayDays == 1095  \* modeling.py:72,76
BoostInv == 20     \* modeling.py:76, 0.05 = 1/20
MinDf == 3         \* modeling.py:52
AppTopN == 5       \* app.py:102

Unit == DecayDays * BoostInv      \* the float 1.0
MaxBoost == Unit \div BoostInv    \* the float 0.05

----------------------------------------------------------------------------
(* Values *)

NaN == "NaN"                                  \* a missing CSV cell
Titles == {"t1", "t2"}
Summaries == {"s1"}
DayOf == [new |-> 0, old |-> 0 - 1460]        \* the parseable published strings
ValidPublished == DOMAIN DayOf
Malformed == "not a date"
RankTitles == {"t1"}
RankPublished == {NaN, Malformed, "new", "old"}
AppPublished == {NaN, Malformed, "new"}
SimVals == {0, Unit \div 2}                   \* off-diagonal cosine similarities

Min(a, b) == IF a <= b THEN a ELSE b
Max(a, b) == IF a >= b THEN a ELSE b

RawRows(titles, published) ==
    [title : titles, summary : Summaries, published : published]

RawCorpora(titles, published, maxLen) ==
    UNION {[1..n -> RawRows(titles, published)] : n \in 0..maxLen}

NoCall == [src |-> "none", index |-> 0, top_n |-> 0, status |-> "none",
           top_indices |-> <<>>, hybrid_scores |-> <<>>, rows |-> <<>>]

----------------------------------------------------------------------------
(* 1. Data loading and processing: modeling.py load_and_process_data *)

fillna(v) == IF v = NaN THEN "" ELSE v

(* pd.read_csv: row k of the file gets index label k - 1 (a RangeIndex). *)
read_csv(rows) ==
    [k \in 1..Len(rows) |->
        [label |-> k - 1, title |-> rows[k].title, summary |-> rows[k].summary,
         published |-> rows[k].published]]

(* pd.to_datetime(errors='coerce') yields NaT for a string it cannot parse. *)
IsNaT(published) == published \notin ValidPublished

(* The body of the try block.  dropna removes rows and keeps the index      *)
(* labels of the rows that stay; there is no reset_index.                   *)
load_and_process_dataAlsoDropsNext(rows) ==
    LET t == read_csv(rows)
        bad(k) == t[k].published = NaN \/ IsNaT(t[k].published)
        keep == SelectSeq([k \in 1..Len(t) |-> k],
                          LAMBDA k : ~bad(k) /\ (k = 1 \/ ~bad(k - 1)))
    IN  [k \in 1..Len(keep) |->
            [label |-> t[keep[k]].label, title |-> t[keep[k]].title,
             published |-> t[keep[k]].published,
             combined_text |-> fillna(t[keep[k]].title) \o " " \o fillna(t[keep[k]].summary),
             published_dt |-> DayOf[t[keep[k]].published]]]

load_and_process_data(rows) ==
    LET t == read_csv(rows)
        combined == [k \in 1..Len(t) |->
                        [label |-> t[k].label, title |-> t[k].title,
                         published |-> t[k].published,
                         combined_text |-> fillna(t[k].title) \o " " \o fillna(t[k].summary)]]
        notna == SelectSeq(combined,
                           LAMBDA r : r.combined_text # NaN /\ r.published # NaN)
        parsed == SelectSeq(notna, LAMBDA r : ~IsNaT(r.published))
    IN  [k \in 1..Len(parsed) |->
            [label |-> parsed[k].label, title |-> parsed[k].title,
             published |-> parsed[k].published,
             combined_text |-> parsed[k].combined_text,
             published_dt |-> DayOf[parsed[k].published]]]

----------------------------------------------------------------------------
(* 2. TF-IDF and cosine similarity: modeling.py create_similarity_matrix *)

(* TfidfVectorizer(min_df=3).fit_transform raises ValueError when the      *)
(* corpus has fewer than min_df documents or no term survives pruning.     *)
VectorizerFails(table, vocab) == Len(table) < MinDf \/ ~vocab

(* cosine_similarity(tfidf_matrix, tfidf_matrix): entry (i, j) is the      *)
(* cosine of the vectors of texts i and j, so it is a function g of the    *)
(* two texts.  A text all of whose terms were pruned has the zero vector   *)
(* and similarity 0 to every text, itself included; any other text has     *)
(* similarity 1.0 to itself.  The values between different texts depend on *)
(* the words, which the model leaves open.                                 *)
TextSims(texts) ==
    {g \in [texts \X texts -> SimVals \cup {Unit}] :
        /\ \A a, b \in texts :
              /\ g[<<a, b>>] = g[<<b, a>>]
              /\ (a = b) => (g[<<a, b>>] \in {0, Unit})
              /\ (a # b) => (g[<<a, b>>] \in SimVals)
              /\ (g[<<a, a>>] = 0) => (g[<<a, b>>] = 0)
        /\ \E a \in texts : g[<<a, a>>] = Unit}

create_similarity_matrix(table) ==
    {[i \in 1..Len(table) |-> [j \in 1..Len(table) |->
         g[<<table[i].combined_text, table[j].combined_text>>]]] :
     g \in TextSims({table[k].combined_text : k \in 1..Len(table)})}

(* The matrices handed to recommend_papers directly: any n x n symmetric   *)
(* matrix with unit diagonal.                                              *)
SimMatrices(n) ==
    LET pairs == {p \in (1..n) \X (1..n) : p[1] < p[2]}
    IN  {[i \in 1..n |-> [j \in 1..n |->
             IF i = j THEN Unit ELSE f[<<Min(i, j), Max(i, j)>>]]] :
         f \in [pairs -> SimVals]}

----------------------------------------------------------------------------
(* 3. Hybrid logic: modeling.py calculate_date_boost, recommend_papers *)

(* today is the value datetime.now().date() has when the call runs. *)
calculate_date_boostNoCutoff(pub_date, today) ==
    LET days_since_pub == today - pub_date
    IN  ((DecayDays - days_since_pub) * Unit) \div (DecayDays * BoostInv)

calculate_date_boost(pub_date, today) ==
    LET days_since_pub == today - pub_date
        boost == ((DecayDays - days_since_pub) * Unit) \div (DecayDays * BoostInv)
    IN  IF days_since_pub > DecayDays THEN 0 ELSE Max(0, boost)

(* sorted(hybrid_scores, key=lambda x: x[1], reverse=True): Python's sort  *)
(* is stable, also with reverse=True, so equal scores keep their order.    *)
RECURSIVE InsertDesc(_, _)
InsertDesc(s, x) ==
    IF s = <<>> THEN <<x>>
    ELSE IF Head(s)[2] >= x[2] THEN <<Head(s)>> \o InsertDesc(Tail(s), x)
    ELSE <<x>> \o s

RECURSIVE InsertDescTiesFirst(_, _)
InsertDescTiesFirst(s, x) ==
    IF s = <<>> THEN <<x>>
    ELSE IF Head(s)[2] > x[2] THEN <<Head(s)>> \o InsertDescTiesFirst(Tail(s), x)
    ELSE <<x>> \o s

RECURSIVE sortedUnstable(_)
sortedUnstable(s) ==
    IF s = <<>> THEN <<>>
    ELSE InsertDescTiesFirst(sortedUnstable(SubSeq(s, 1, Len(s) - 1)), s[Len(s)])

RECURSIVE sortedRec(_)
sortedRec(s) ==
    IF s = <<>> THEN <<>>
    ELSE InsertDesc(sortedRec(SubSeq(s, 1, Len(s) - 1)), s[Len(s)])

sorted(s) == sortedRec(s)

(* The candidates of the loop at modeling.py:85-86: every enumerated       *)
(* position i with i != index.                                             *)
CandidatesWithQuery(n, index) == [k \in 1..n |-> k - 1]

Candidates(n, index) == SelectSeq([k \in 1..n |-> k - 1], LAMBDA i : i # index)

(* cosine_sim[index]: numpy raises IndexError outside -n <= index < n and  *)
(* counts a negative index from the end.                                   *)
IndexErrorRaised(n, index) == index >= n \/ index < 0 - n

NumpyRow(m, index) == IF index < 0 THEN m[index + Len(m) + 1] ELSE m[index + 1]

(* clk[i + 1] is the date datetime.now() returns when candidate i is       *)
(* scored: the clock is read inside calculate_date_boost, once a candidate.*)
recommend_papers(table, matrix, index, top_n, clk) ==
    IF IndexErrorRaised(Len(matrix), index)
    THEN [index |-> index, top_n |-> top_n, status |-> "IndexOutOfRange",
          top_indices |-> <<>>, hybrid_scores |-> <<>>, rows |-> <<>>]
    ELSE
    LET sim_scores == NumpyRow(matrix, index)
        cand == Candidates(Len(sim_scores), index)
        scored == [k \in 1..Len(cand) |->
                     <<cand[k],
                       sim_scores[cand[k] + 1]
                         + calculate_date_boost(table[cand[k] + 1].published_dt,
                                                clk[cand[k] + 1])>>]
        hybrid_scores == sorted(scored)
        top == SubSeq(hybrid_scores, 1, Min(top_n, Len(hybrid_scores)))
        top_indices == [k \in 1..Len(top) |-> top[k][1]]
        keys == {hybrid_scores[k][1] : k \in 1..Len(hybrid_scores)}
        final_scores_map ==
            [i \in keys |->
                 (CHOOSE e \in {hybrid_scores[k] : k \in 1..Len(hybrid_scores)} :
                      e[1] = i)[2]]
        get(i) == IF i \in keys THEN final_scores_map[i] ELSE 0
    IN  [index |-> index, top_n |-> top_n, status |-> "ok",
         top_indices |-> top_indices,
         hybrid_scores |-> hybrid_scores,
         rows |-> [k \in 1..Len(top_indices) |->
                     [label |-> table[top_indices[k] + 1].label,
                      title |-> table[top_indices[k] + 1].title,
                      published |-> table[top_indices[k] + 1].published,
                      HybridScore |-> get(table[top_indices[k] + 1].label)]]]

(* The dates the clock can show while n candidates are scored, starting at *)
(* date lo: it never runs backwards.                                       *)
Clocks(n, lo) ==
    {c \in [1..n -> lo..MaxTick] : \A i, j \in 1..n : i <= j => c[i] <= c[j]}

ClockAfter(c, lo) == IF Len(c) = 0 THEN lo ELSE c[Len(c)]

(* The call as the specification records it: who called, and the result.  *)
Called(src, result) == [src |-> src] @@ result

----------------------------------------------------------------------------
(* 4. The application: app.py load_and_process_assets and main *)

(* load_and_process_assets up to the matrix values: a missing file raises  *)
(* CustomException (app.py:30-32), an unreadable one raises it from        *)
(* load_and_process_data (modeling.py:37-39); main catches CustomException *)
(* and reports it.  The vectorizer's ValueError is no CustomException and  *)
(* leaves main uncaught.                                                   *)
load_and_process_assetsFallback(fs, rows, vocab) ==
    IF fs = "missing" THEN [outcome |-> "reported", df |-> <<>>]
    ELSE IF fs = "unreadable" THEN [outcome |-> "reported", df |-> <<>>]
    ELSE [outcome |-> "loaded", df |-> load_and_process_data(rows)]

load_and_process_assets(fs, rows, vocab) ==
    IF fs = "missing" THEN [outcome |-> "reported", df |-> <<>>]
    ELSE IF fs = "unreadable" THEN [outcome |-> "reported", df |-> <<>>]
    ELSE IF VectorizerFails(load_and_process_data(rows), vocab)
    THEN [outcome |-> "uncaught", df |-> <<>>]
    ELSE [outcome |-> "loaded", df |-> load_and_process_data(rows)]

(* df[df['title'] == selected_title].index[0]: the index label of the      *)
(* first row with that title.                                              *)
FirstWithTitle(table, t) ==
    CHOOSE k \in 1..Len(table) :
        table[k].title = t /\ \A j \in 1..(k - 1) : table[j].title # t

selected_index(table, t) == table[FirstWithTitle(table, t)].label

(* The recommendation block of main, app.py:94-102, and the bookkeeping    *)
(* of the widgets before it.                                               *)
Display(t, generated) ==
    /\ selected_title' = t
    /\ recommendations_generated' = generated
    /\ IF generated /\ t # NaN
       THEN LET idx == selected_index(df, t)
            IN  IF IndexErrorRaised(Len(cosine_sim), idx)
                THEN /\ call' = Called("app", recommend_papers(df, cosine_sim, idx,
                                                               AppTopN, <<>>))
                     /\ now' = now
                ELSE \E clk \in Clocks(Len(df), now) :
                     /\ call' = Called("app", recommend_papers(df, cosine_sim, idx,
                                                               AppTopN, clk))
                     /\ now' = ClockAfter(clk, now)
       ELSE UNCHANGED <<call, now>>

(* The first run of main in a session: nothing is cached. *)
OpenApp ==
    /\ loadState = "unloaded"
    /\ LET a == load_and_process_assets(fileState, raw, vocabOk)
       IN  /\ loadState' = a.outcome
           /\ df' = a.df
           /\ IF a.outcome = "loaded"
              THEN /\ cosine_sim' \in create_similarity_matrix(a.df)
                   /\ selected_title' = IF Len(a.df) = 0 THEN NaN ELSE a.df[1].title
              ELSE /\ cosine_sim' = <<>>
                   /\ selected_title' = NaN
    /\ UNCHANGED <<fileState, raw, vocabOk, now, recommendations_generated, call,
                   published_dt, boost_log>>

(* A rerun after a failed load: st.cache_data caches no exception, so the  *)
(* load runs again, on the same snapshot.                                  *)
Reload ==
    /\ loadState \in {"reported", "uncaught"}
    /\ loadState' = load_and_process_assets(fileState, raw, vocabOk).outcome
    /\ loadState' # "loaded"
    /\ UNCHANGED <<fileState, raw, vocabOk, df, cosine_sim, now, selected_title,
                   recommendations_generated, call, published_dt, boost_log>>

(* The button: main reruns with the cached assets (app.py:90-91). *)
ClickGenerate ==
    /\ loadState = "loaded"
    /\ Display(selected_title, TRUE)
    /\ UNCHANGED <<fileState, raw, vocabOk, loadState, df, cosine_sim,
                   published_dt, boost_log>>

(* Another title is chosen in the selectbox: main reruns (app.py:73-80). *)
SelectTitle ==
    /\ loadState = "loaded"
    /\ \E k \in 1..Len(df) :
          /\ df[k].title # selected_title
          /\ Display(df[k].title, recommendations_generated)
    /\ UNCHANGED <<fileState, raw, vocabOk, loadState, df, cosine_sim,
                   published_dt, boost_log>>

(* Midnight passes. *)
Tick ==
    /\ now < MaxTick
    /\ now' = now + 1
    /\ UNCHANGED <<fileState, raw, vocabOk, loadState, df, cosine_sim, selected_title,
                   recommendations_generated, call, published_dt, boost_log>>

Init ==
    /\ fileState \in {"missing", "unreadable", "ok"}
    /\ raw \in IF fileState = "ok" THEN RawCorpora(Titles, AppPublished, MaxAppRaw)
               ELSE {<<>>}
    /\ vocabOk \in BOOLEAN
    /\ loadState = "unloaded"
    /\ df = <<>>
    /\ cosine_sim = <<>>
    /\ now = 0
    /\ selected_title = NaN
    /\ recommendations_generated = FALSE
    /\ call = NoCall
    /\ published_dt = 0
    /\ boost_log = <<>>

Next == OpenApp \/ Reload \/ ClickGenerate \/ SelectTitle \/ Tick

Spec == Init /\ [][Next]_vars

----------------------------------------------------------------------------
(* 5. The ranker called on a prepared corpus and a matrix of its size:     *)
(* modeling.py:114-124 without the vectorizer, whose matrix is an input.   *)
(* A run prepares the corpus and makes one call.                           *)

Prepare ==
    /\ loadState = "unloaded"
    /\ df' = load_and_process_data(raw)
    /\ loadState' = "prepared"
    /\ UNCHANGED <<fileState, raw, vocabOk, cosine_sim, now, selected_title,
                   recommendations_generated, call, published_dt, boost_log>>

PairMatrix ==
    /\ loadState = "prepared"
    /\ cosine_sim' \in SimMatrices(Len(df))
    /\ loadState' = "loaded"
    /\ UNCHANGED <<fileState, raw, vocabOk, df, now, selected_title,
                   recommendations_generated, call, published_dt, boost_log>>

RecommendDirect ==
    /\ loadState = "loaded"
    /\ call.src = "none"
    /\ \E index \in (0 - Len(df) - 1)..Len(df), top_n \in 1..MaxTopN :
          IF IndexErrorRaised(Len(cosine_sim), index)
          THEN /\ call' = Called("direct", recommend_papers(df, cosine_sim, index,
                                                            top_n, <<>>))
               /\ now' = now
          ELSE \E clk \in Clocks(Len(df), now) :
               /\ call' = Called("direct", recommend_papers(df, cosine_sim, index,
                                                            top_n, clk))
               /\ now' = ClockAfter(clk, now)
    /\ UNCHANGED <<fileState, raw, vocabOk, loadState, df, cosine_sim, selected_title,
                   recommendations_generated, published_dt, boost_log>>

InitRank ==
    /\ fileState = "ok"
    /\ raw \in RawCorpora(RankTitles, RankPublished, MaxRaw)
    /\ vocabOk = TRUE
    /\ loadState = "unloaded"
    /\ df = <<>>
    /\ cosine_sim = <<>>
    /\ now = 0
    /\ selected_title = NaN
    /\ recommendations_generated = FALSE
    /\ call = NoCall
    /\ published_dt = 0
    /\ boost_log = <<>>

NextRank == Prepare \/ PairMatrix \/ RecommendDirect \/ Tick

SpecRank == InitRank /\ [][NextRank]_vars

----------------------------------------------------------------------------
(* 6. calculate_date_boost called on one publication date as the days pass *)

LastTwo(s) == IF Len(s) <= 2 THEN s ELSE SubSeq(s, Len(s) - 1, Len(s))

CalcBoost ==
    /\ boost_log' = LastTwo(Append(boost_log,
                        [today |-> now,
                         boost |-> calculate_date_boost(published_dt, now)]))
    /\ UNCHANGED <<fileState, raw, vocabOk, loadState, df, cosine_sim, now,
                   selected_title, recommendations_generated, call, published_dt>>

InitBoost ==
    /\ fileState = "ok"
    /\ raw = <<>>
    /\ vocabOk = TRUE
    /\ loadState = "unloaded"
    /\ df = <<>>
    /\ cosine_sim = <<>>
    /\ now = 0
    /\ selected_title = NaN
    /\ recommendations_generated = FALSE
    /\ call = NoCall
    /\ published_dt \in (0 - DecayDays - MaxPast)..MaxFuture
    /\ boost_log = <<>>

NextBoost == CalcBoost \/ Tick

SpecBoost == InitBoost /\ [][NextBoost]_vars

----------------------------------------------------------------------------
(* Properties *)

N == Len(df)

(* The score recommend_papers gave the candidate at position p. *)
ScoreOf(p) ==
    (CHOOSE e \in {call.hybrid_scores[k] : k \in 1..Len(call.hybrid_scores)} :
         e[1] = p)[2]

Scored == {call.hybrid_scores[k][1] : k \in 1..Len(call.hybrid_scores)}

(* p ranks before q: a higher score, or the same score at a lower position *)
Before(p, q) == ScoreOf(p) > ScoreOf(q) \/ (ScoreOf(p) = ScoreOf(q) /\ p < q)

ValidDirectCall ==
    /\ call.src = "direct"
    /\ call.index \in 0..(N - 1)

(* C1: for a valid queryIndex and 1 <= topN <= N - 1, recommend_papers     *)
(* returns exactly topN papers, none of them the query, every other paper  *)
(* having been scored once, with its similarity to the query plus its date *)
(* boost on the date it was scored; the results are in descending order of *)
(* that hybrid score, ties in ascending corpus position, and no paper left *)
(* out ranks before a returned one.  (The order is that of the scores the  *)
(* call computed; the score column it attaches to the rows is C2.)         *)
C1_ExactlyTopNOrdered ==
    (ValidDirectCall /\ call.top_n \in 1..(N - 1)) =>
        /\ call.status = "ok"
        /\ Len(call.rows) = call.top_n
        /\ Len(call.top_indices) = call.top_n
        /\ Len(call.hybrid_scores) = N - 1
        /\ Scored = (0..(N - 1)) \ {call.index}
        /\ \A p \in Scored :
              ScoreOf(p) \in
                  {cosine_sim[call.index + 1][p + 1]
                     + calculate_date_boost(df[p + 1].published_dt, t) : t \in 0..now}
        /\ \A k \in 1..call.top_n :
              /\ call.top_indices[k] # call.index
              /\ call.rows[k].label = df[call.top_indices[k] + 1].label
              /\ call.rows[k].title = df[call.top_indices[k] + 1].title
        /\ \A k, l \in 1..call.top_n :
              k < l => Before(call.top_indices[k], call.top_indices[l])
        /\ \A k \in 1..call.top_n :
              \A p \in Scored \ {call.top_indices[j] : j \in 1..call.top_n} :
                  Before(call.top_indices[k], p)

(* A call with topN = 2 on three papers whose two results tie exactly. *)
C1_Witness ==
    /\ ValidDirectCall
    /\ N = 3
    /\ call.top_n = 2
    /\ call.status = "ok"
    /\ Len(call.top_indices) = 2
    /\ ScoreOf(call.top_indices[1]) = ScoreOf(call.top_indices[2])

(* C2: every returned entry carries as its hybrid score the similarity of  *)
(* the query to that same paper plus that paper's date boost (at a date    *)
(* the clock showed during the session), also when preparation dropped     *)
(* records.                                                                *)
C2_ScoreIsOfSamePaper ==
    (ValidDirectCall /\ call.status = "ok") =>
        \A k \in 1..Len(call.rows) :
            LET p == call.top_indices[k]
            IN  call.rows[k].HybridScore \in
                    {cosine_sim[call.index + 1][p + 1]
                       + calculate_date_boost(df[p + 1].published_dt, t) : t \in 0..now}

(* C3: a queryIndex outside 0 <= queryIndex < N fails with IndexOutOfRange *)
(* and returns nothing.                                                    *)
C3_InvalidIndexFails ==
    (call.src = "direct" /\ call.index \notin 0..(N - 1)) =>
        /\ call.status = "IndexOutOfRange"
        /\ call.rows = <<>>

(* C4: the index main derives from the selected title never makes          *)
(* recommend_papers fail and is the position of the selected paper (of the *)
(* first paper with the selected title).                                   *)
C4_LookupIndexIsPosition ==
    (call.src = "app") =>
        /\ call.status = "ok"
        /\ call.index = FirstWithTitle(df, selected_title) - 1

(* C5: the boost is 0.05 at 0 days, (1 - days/1095) * 0.05 for             *)
(* 0 <= days <= 1095, 0 at 1095 days and beyond, and never grows as the    *)
(* publication ages.                                                       *)
C5_BoostDecays ==
    /\ \A k \in 1..Len(boost_log) :
          LET days == boost_log[k].today - published_dt
              b == boost_log[k].boost
          IN  /\ (days = 0) => (b = MaxBoost)
              /\ (0 <= days /\ days <= DecayDays) =>
                     (b * DecayDays * BoostInv = (DecayDays - days) * Unit)
              /\ (days >= DecayDays) => (b = 0)
    /\ \A k, l \in 1..Len(boost_log) :
          (boost_log[k].today <= boost_log[l].today) =>
              (boost_log[k].boost >= boost_log[l].boost)

(* The boost was computed at 1095 days and again at 1096 days. *)
C5_Witness ==
    /\ Len(boost_log) = 2
    /\ boost_log[1].today - published_dt = DecayDays
    /\ boost_log[2].today - published_dt = DecayDays + 1

(* C6: whatever the publication date, also one after the current date, the *)
(* boost lies between 0 and 0.05.                                          *)
C6_BoostInRange ==
    \A k \in 1..Len(boost_log) :
        0 <= boost_log[k].boost /\ boost_log[k].boost <= MaxBoost

(* C7: when exactly one raw record has a malformed date and all others are *)
(* valid, the prepared corpus is the raw records without that one, in      *)
(* their order and with their fields unchanged.                            *)
C7_OneMalformedDropped ==
    \A k \in 1..Len(raw) :
        ( /\ loadState \in {"prepared", "loaded"}
          /\ raw[k].published = Malformed
          /\ \A j \in (1..Len(raw)) \ {k} : raw[j].published \in ValidPublished ) =>
            /\ Len(df) = Len(raw) - 1
            /\ \A j \in 1..Len(df) :
                  LET o == IF j < k THEN j ELSE j + 1
                  IN  /\ df[j].label = o - 1
                      /\ df[j].title = raw[o].title
                      /\ df[j].published = raw[o].published
                      /\ df[j].published_dt = DayOf[raw[o].published]
                      /\ df[j].combined_text = raw[o].title \o " " \o raw[o].summary

(* Three raw records, the middle one malformed, have been prepared. *)
C7_Witness ==
    /\ loadState = "prepared"
    /\ Len(raw) = 3
    /\ raw[2].published = Malformed
    /\ raw[1].published \in ValidPublished
    /\ raw[3].published \in ValidPublished
    /\ Len(df) = 2

SnapshotFails ==
    fileState # "ok" \/ VectorizerFails(load_and_process_data(raw), vocabOk)

(* C8: the application serves a ranking only from a corpus and a matrix    *)
(* that were both built; a failed construction leaves an error outcome, no *)
(* corpus, no matrix and no ranking.                                       *)
C8_NoRankingWithoutAssets ==
    /\ (call.src = "app") => (loadState = "loaded")
    /\ (loadState = "loaded") =>
          /\ ~SnapshotFails
          /\ df = load_and_process_data(raw)
          /\ Len(cosine_sim) = Len(df)
          /\ \A i \in 1..Len(df) : Len(cosine_sim[i]) = Len(df)
    /\ (loadState # "unloaded" /\ SnapshotFails) =>
          /\ loadState \in {"reported", "uncaught"}
          /\ df = <<>>
          /\ cosine_sim = <<>>
          /\ call = NoCall

(* The load ran on a readable snapshot of enough rows whose vocabulary is  *)
(* empty.                                                                  *)
C8_Witness ==
    /\ loadState = "uncaught"
    /\ fileState = "ok"
    /\ Len(load_and_process_data(raw)) >= MinDf
    /\ ~vocabOk

(* C9: on a corpus of one paper, queryIndex 0 yields an empty result for   *)
(* every topN >= 1, and no error.                                          *)
C9_SinglePaperEmpty ==
    (call.src = "direct" /\ N = 1 /\ call.index = 0) =>
        /\ call.status = "ok"
        /\ call.rows = <<>>
        /\ call.top_indices = <<>>

C9_Witness ==
    /\ call.src = "direct"
    /\ N = 1
    /\ call.index = 0
    /\ call.top_n = MaxTopN
    /\ call.status = "ok"

(* C10: within one call, two candidates with the same publication date get *)
(* the same date boost.                                                    *)
C10_OneClockPerCall ==
    (ValidDirectCall /\ call.status = "ok") =>
        \A p, q \in Scored :
            (df[p + 1].published_dt = df[q + 1].published_dt) =>
                (ScoreOf(p) - cosine_sim[call.index + 1][p + 1]
                   = ScoreOf(q) - cosine_sim[call.index + 1][q + 1])

====
